---------------------------- MODULE Spec2Model ----------------------------
(***************************************************************************)
(* LetsRenew (src/letsrenew.py): the renewal wrapper that checks a         *)
(* certificate's remaining validity and, when it is under the threshold,   *)
(* opens port 80 in the attached security group, runs certbot and reverts  *)
(* the security group.                                                     *)
(*                                                                         *)
(* The model is the statement sequence of the "Run" section (lines 188 to  *)
(* 225), one action per statement, for a bounded number of invocations     *)
(* that share one security group.  Every call that leaves the script (the  *)
(* TLS connection, os.popen, the metadata requests, boto3) either returns  *)
(* or raises; the script has no try/except around any of them except the   *)
(* ones in ssl_expiration and request, so a raise ends the invocation with *)
(* Python's exit status 1.                                                 *)
(*                                                                         *)
(* The call at lines 212-215, run_cmd(f"""...""", lacks its closing        *)
(* parenthesis in the source.  The model reads it as the call it is        *)
(* written to be, followed by the statements of lines 218-225.             *)
(***************************************************************************)
EXTENDS Integers, Sequences, FiniteSets, TLC

\* Number of invocations of the script that the scheduler may overlap.
MaxInvocations == 2

Invocations == 1..MaxInvocations

--------------------------------------------------------------------------
(* Configuration section, lines 68-97 *)

domain == "mydomain.tld"

threshold == 5 * 24 * 60 * 60

pre_command == "echo \"pre command\""

post_command == "echo \"post command\""

temp_rule ==
    [FromPort |-> 80, ToPort |-> 80, IpProtocol |-> "tcp",
     CidrIp |-> "0.0.0.0/0", Description |-> "temp-letsrenew-rule"]

\* The f-string of lines 212-215.
certbot_command == "certbot -d mydomain.tld --standalone certonly"

identity_document_url ==
    "http://169.254.169.254/latest/dynamic/instance-identity/document"

security_groups_url ==
    "http://169.254.169.254/latest/meta-data/security-groups"

--------------------------------------------------------------------------
(* Inputs *)

\* Remaining validity, in seconds, that ssl_expiration may compute: an
\* expired certificate, the threshold itself and its two neighbours.
SecondsLeftValues == {0 - 1, threshold - 1, threshold, threshold + 1}

VARIABLES
    pc,            \* pc[i]: the statement invocation i executes next
    seconds_left,  \* seconds_left[i]: <<>> until line 189 assigns it, then <<s>>
    decision,      \* decision[i]: the branch taken at line 191
    log,           \* log[i]: the calls invocation i made that leave the script
    exit_status,   \* exit_status[i]: <<>> while running, then <<code>>
    ingress        \* the ingress permissions of the attached security group

vars == <<pc, seconds_left, decision, log, exit_status, ingress>>

Call(op, arg, result) == [op |-> op, arg |-> arg, result |-> result]

\* The interpreter ends invocation i with the given exit status.
Exit(i, code) ==
    /\ pc' = [pc EXCEPT ![i] = "exited"]
    /\ exit_status' = [exit_status EXCEPT ![i] = <<code>>]

\* Statement of invocation i completes and control moves to the statement next.
Goto(i, next) ==
    /\ pc' = [pc EXCEPT ![i] = next]
    /\ UNCHANGED exit_status

Logged(i, op, arg, result) ==
    log' = [log EXCEPT ![i] = Append(@, Call(op, arg, result))]

Init ==
    /\ pc = [i \in Invocations |-> "ssl_expiration"]
    /\ seconds_left = [i \in Invocations |-> <<>>]
    /\ decision = [i \in Invocations |-> "none"]
    /\ log = [i \in Invocations |-> <<>>]
    /\ exit_status = [i \in Invocations |-> <<>>]
    /\ ingress = {}

--------------------------------------------------------------------------
(* Collaborators: what a call that leaves the script can do *)

\* os.popen(cmd).read() of run_cmd, lines 125-129, as the script sees it:
\* read() returns the command's output ("ok"), or popen/read raise, e.g.
\* OSError or UnicodeDecodeError ("raised").  run_cmd has no try/except and
\* never reads the command's exit status.
run_cmd_results == {"ok", "raised"}

\* The same call for the renewal tool, with the tool's own verdict kept
\* apart: certbot ends with a non-zero status and run_cmd returns its output
\* all the same ("failed").
certbot_results == run_cmd_results \cup {"failed"}

\* requests.get through request(), lines 112-123, and the use of its reply:
\* a RequestException is caught and turned into sys.exit(e).
request_results == {"ok", "raised"}

\* sg.authorize_ingress(IpPermissions=temp_rule), line 175: the set of
\* possible <<result, ingress afterwards>>.  EC2 rejects a permission the
\* group already holds (InvalidPermission.Duplicate); any call may also fail
\* for another reason (credentials, throttling) and change nothing.
authorize_ingress(rules, perm) ==
    IF perm \in rules
    THEN {<<"raised", rules>>}
    ELSE {<<"ok", rules \cup {perm}>>, <<"raised", rules>>}

\* sg.revoke_ingress(IpPermissions=temp_rule), line 180.  Revoking a
\* permission the group does not hold is reported as an error or accepted
\* without effect, depending on the platform.
revoke_ingress(rules, perm) ==
    {<<"ok", rules \ {perm}>>, <<"raised", rules>>}

--------------------------------------------------------------------------
(* The script *)

\* Line 189 and ssl_expiration, lines 131-159.  A connection that cannot be
\* made is printed and followed by sys.exit() with no argument: status 0.
ssl_expiration(i) ==
    /\ pc[i] = "ssl_expiration"
    /\ \/ /\ Exit(i, 0)
          /\ UNCHANGED seconds_left
       \/ \E s \in SecondsLeftValues :
             /\ seconds_left' = [seconds_left EXCEPT ![i] = <<s>>]
             /\ Goto(i, "if")
    /\ UNCHANGED <<decision, log, ingress>>

Decide_le(seconds, limit) ==
    IF seconds <= limit THEN "Renew" ELSE "Skip"

Decide_always(seconds, limit) ==
    "Renew"

\* The condition of line 191.
Decide(seconds, limit) ==
    IF seconds < limit THEN "Renew" ELSE "Skip"

\* Line 191: enter the body, or fall off the end of the script (status 0).
if_seconds_left(i) ==
    /\ pc[i] = "if"
    /\ decision' = [decision EXCEPT ![i] = Decide(seconds_left[i][1], threshold)]
    /\ IF decision'[i] = "Renew"
       THEN Goto(i, "pre_command")
       ELSE Exit(i, 0)
    /\ UNCHANGED <<seconds_left, log, ingress>>

\* Lines 193-195: out = run_cmd(pre_command).
run_pre_command(i) ==
    /\ pc[i] = "pre_command"
    /\ \E r \in run_cmd_results :
          /\ Logged(i, "run_cmd", pre_command, r)
          /\ IF r = "raised" THEN Exit(i, 1) ELSE Goto(i, "region")
    /\ UNCHANGED <<seconds_left, decision, ingress>>

\* Lines 198-199: the instance identity document and its region.
get_region(i) ==
    /\ pc[i] = "region"
    /\ \E r \in request_results :
          /\ Logged(i, "request", identity_document_url, r)
          /\ IF r = "raised" THEN Exit(i, 1) ELSE Goto(i, "boto3_client")
    /\ UNCHANGED <<seconds_left, decision, ingress>>

\* Line 202: ec2 = boto3.client('ec2').
boto3_client(i) ==
    /\ pc[i] = "boto3_client"
    /\ \E r \in {"ok", "raised"} :
          /\ Logged(i, "boto3.client", "ec2", r)
          /\ IF r = "raised" THEN Exit(i, 1) ELSE Goto(i, "security_groups")
    /\ UNCHANGED <<seconds_left, decision, ingress>>

\* Line 205: the names of the security groups attached to this node.
get_security_groups(i) ==
    /\ pc[i] = "security_groups"
    /\ \E r \in request_results :
          /\ Logged(i, "request", security_groups_url, r)
          /\ IF r = "raised" THEN Exit(i, 1) ELSE Goto(i, "describe")
    /\ UNCHANGED <<seconds_left, decision, ingress>>

\* Line 206 and get_security_group_by_name, lines 161-170.
get_security_group_by_name(i) ==
    /\ pc[i] = "describe"
    /\ \E r \in {"ok", "raised"} :
          /\ Logged(i, "describe_security_groups", "group-name", r)
          /\ IF r = "raised" THEN Exit(i, 1) ELSE Goto(i, "add_rule")
    /\ UNCHANGED <<seconds_left, decision, ingress>>

add_rule_ignoring_errors(i) ==
    /\ pc[i] = "add_rule"
    /\ \E o \in authorize_ingress(ingress, temp_rule) :
          /\ Logged(i, "authorize_ingress", temp_rule.Description, o[1])
          /\ ingress' = o[2]
          /\ Goto(i, "certbot")
    /\ UNCHANGED <<seconds_left, decision>>

\* Line 209 and add_rule_to_security_group, lines 172-175.
add_rule_to_security_group(i) ==
    /\ pc[i] = "add_rule"
    /\ \E o \in authorize_ingress(ingress, temp_rule) :
          /\ Logged(i, "authorize_ingress", temp_rule.Description, o[1])
          /\ ingress' = o[2]
          /\ IF o[1] = "raised" THEN Exit(i, 1) ELSE Goto(i, "certbot")
    /\ UNCHANGED <<seconds_left, decision>>

renew_then_post_command(i) ==
    /\ pc[i] = "certbot"
    /\ \E r \in certbot_results :
          /\ Logged(i, "run_cmd", certbot_command, r)
          /\ IF r = "raised" THEN Exit(i, 1) ELSE Goto(i, "post_command")
    /\ UNCHANGED <<seconds_left, decision, ingress>>

\* Lines 212-215: out = run_cmd(certbot ...).  The command's status is not
\* read; only a raise of run_cmd itself leaves the sequence.
renew_certificate(i) ==
    /\ pc[i] = "certbot"
    /\ \E r \in certbot_results :
          /\ Logged(i, "run_cmd", certbot_command, r)
          /\ IF r = "raised" THEN Exit(i, 1) ELSE Goto(i, "remove_rule")
    /\ UNCHANGED <<seconds_left, decision, ingress>>

\* Line 218 and remove_rule_from_security_group, lines 177-180.
remove_rule_from_security_group(i) ==
    /\ pc[i] = "remove_rule"
    /\ \E o \in revoke_ingress(ingress, temp_rule) :
          /\ Logged(i, "revoke_ingress", temp_rule.Description, o[1])
          /\ ingress' = o[2]
          /\ IF o[1] = "raised" THEN Exit(i, 1) ELSE Goto(i, "post_command")
    /\ UNCHANGED <<seconds_left, decision>>

\* Lines 223-225: print('Running post-command'); out = run_cmd(pre_command).
\* The script then ends: status 0 unless run_cmd raised.
run_post_command(i) ==
    /\ pc[i] = "post_command"
    /\ \E r \in run_cmd_results :
          /\ Logged(i, "run_cmd", pre_command, r)
          /\ IF r = "raised" THEN Exit(i, 1) ELSE Exit(i, 0)
    /\ UNCHANGED <<seconds_left, decision, ingress>>

Next ==
    \E i \in Invocations :
       \/ ssl_expiration(i)
       \/ if_seconds_left(i)
       \/ run_pre_command(i)
       \/ get_region(i)
       \/ boto3_client(i)
       \/ get_security_groups(i)
       \/ get_security_group_by_name(i)
       \/ add_rule_to_security_group(i)
       \/ renew_certificate(i)
       \/ remove_rule_from_security_group(i)
       \/ run_post_command(i)

Spec == Init /\ [][Next]_vars

--------------------------------------------------------------------------
(* Vocabulary of the properties *)

Exited(i) == pc[i] = "exited"

\* The positions of invocation i's log that hold a call of the given kind.
Entries(i, op) == {k \in DOMAIN log[i] : log[i][k].op = op}

Added(i) ==
    \E k \in Entries(i, "authorize_ingress") : log[i][k].result = "ok"

AddFailed(i) ==
    \E k \in Entries(i, "authorize_ingress") : log[i][k].result = "raised"

RemoveFailed(i) ==
    \E k \in Entries(i, "revoke_ingress") : log[i][k].result = "raised"

RenewalRuns(i) ==
    {k \in Entries(i, "run_cmd") : log[i][k].arg = certbot_command}

\* A hook is a run_cmd of one of the two configured commands.
HookRuns(i) ==
    {k \in Entries(i, "run_cmd") : log[i][k].arg \in {pre_command, post_command}}

\* The post-renewal hook is the hook run after the rule remove.
PostHookRuns(i) ==
    {k \in HookRuns(i) : \E r \in Entries(i, "revoke_ingress") : r < k}

StepOf(e) ==
    IF e.op = "run_cmd"
    THEN (IF e.arg = certbot_command THEN "renew" ELSE "hook")
    ELSE e.op

Steps(i) == [k \in DOMAIN log[i] |-> StepOf(log[i][k])]

RenewalOrder ==
    <<"hook", "request", "boto3.client", "request", "describe_security_groups",
      "authorize_ingress", "renew", "revoke_ingress", "hook">>

IsPrefix(s, t) == Len(s) <= Len(t) /\ \A k \in DOMAIN s : s[k] = t[k]

\* The invocation left the threshold test through the renewal branch.
EnteredRenewal(i) ==
    /\ pc[i] \notin {"ssl_expiration", "if"}
    /\ Exited(i) => log[i] # <<>>

\* A failure the interface calls fatal: the expiration check failed, a call
\* raised or the renewal tool reported failure.
FatalFailure(i) ==
    \/ seconds_left[i] = <<>>
    \/ \E k \in DOMAIN log[i] : log[i][k].result = "raised"
    \/ \E k \in RenewalRuns(i) : log[i][k].result = "failed"

--------------------------------------------------------------------------
(* Properties *)

\* C1: once the temporary rule has been added, the rule remove is invoked
\* exactly once on every exit path of the renewal step (success, tool
\* failure, unexpected exception): no invocation ends with the rule added
\* and the remove never attempted.
C1_RemoveOnceOnEveryExit ==
    \A i \in Invocations :
       (Exited(i) /\ Added(i)) => Cardinality(Entries(i, "revoke_ingress")) = 1

\* C2: the decision is Renew exactly when seconds_left < threshold and Skip
\* otherwise, for every integer seconds_left (negative included); equality
\* gives Skip.  The renewal branch is entered exactly on Renew.
C2_DecideStrictlyBelowThreshold ==
    \A i \in Invocations :
       decision[i] # "none" =>
          /\ decision[i] = "Renew" <=> seconds_left[i][1] < threshold
          /\ decision[i] = "Skip" <=> seconds_left[i][1] >= threshold
          /\ EnteredRenewal(i) <=> seconds_left[i][1] < threshold

C2_Witness ==
    \E i, j \in Invocations :
       /\ seconds_left[i] = <<threshold>> /\ decision[i] = "Skip" /\ Exited(i)
       /\ seconds_left[j] = <<0 - 1>> /\ decision[j] = "Renew"
       /\ pc[j] = "pre_command"

\* C3: a hook run, a metadata query or a security-group call happens only in
\* an invocation whose expiration check succeeded with seconds_left below
\* the threshold; an invocation whose check failed or whose seconds_left is
\* at or over the threshold ends having called nothing, the group untouched.
C3_NoCallUnlessDue ==
    \A i \in Invocations :
       /\ log[i] # <<>> =>
             seconds_left[i] # <<>> /\ seconds_left[i][1] < threshold
       /\ (\A j \in Invocations : log[j] = <<>>) => ingress = {}

C3_Witness ==
    \E i, j \in Invocations :
       /\ Exited(i) /\ seconds_left[i] = <<>> /\ log[i] = <<>>
       /\ Exited(j) /\ seconds_left[j] = <<threshold>> /\ log[j] = <<>>
       /\ ingress = {}

\* C4: in a renewing invocation the steps occur in the order pre hook, rule
\* add, renewal tool, rule remove, post hook: the renewal tool runs only
\* after the add has returned, the remove only after the renewal tool, the
\* post hook only after the remove.
C4_RenewalStepsInOrder ==
    \A i \in Invocations :
       /\ IsPrefix(Steps(i), RenewalOrder)
       /\ \A k \in RenewalRuns(i) :
             \E a \in Entries(i, "authorize_ingress") :
                a < k /\ log[i][a].result = "ok"
       /\ \A r \in Entries(i, "revoke_ingress") :
             \E k \in RenewalRuns(i) : k < r
       /\ \A h \in HookRuns(i) :
             h > 1 => \E r \in Entries(i, "revoke_ingress") : r < h

C4_Witness ==
    \E i \in Invocations :
       /\ Exited(i)
       /\ Steps(i) = RenewalOrder
       /\ \A k \in DOMAIN log[i] : log[i][k].result = "ok"

\* C5: the exit status is 0 when the invocation ends in Skip or in a
\* successful Done, and non-zero on every fatal failure path, the failed
\* expiration check and the failed renewal tool included.
C5_ExitStatusReportsFailure ==
    \A i \in Invocations :
       Exited(i) => (exit_status[i] = <<0>> <=> ~FatalFailure(i))

\* C6: adding the temporary rule while an identical rule is already in the
\* security group is not fatal: the invocation goes on to its next step.
C6_DuplicateAddNotFatal ==
    [][\A i \in Invocations :
          (pc[i] = "add_rule" /\ temp_rule \in ingress /\ pc'[i] # pc[i])
             => pc'[i] = "certbot"]_vars

\* C7: a failed rule remove is attempted again at least once before the
\* invocation ends, and the invocation never ends with status 0 after it.
C7_RemoveRetried ==
    \A i \in Invocations :
       (Exited(i) /\ RemoveFailed(i)) =>
          /\ Cardinality(Entries(i, "revoke_ingress")) >= 2
          /\ exit_status[i] # <<0>>

\* C8: the renewal tool is never invoked in an invocation whose rule add
\* did not succeed; a failed add ends the invocation.
C8_NoRenewalWithoutAdd ==
    \A i \in Invocations :
       /\ (RenewalRuns(i) # {} \/ pc[i] = "certbot") => Added(i)
       /\ AddFailed(i) => (Exited(i) /\ RenewalRuns(i) = {})

C8_Witness ==
    \E i \in Invocations :
       Exited(i) /\ AddFailed(i) /\ RenewalRuns(i) = {} /\ temp_rule \notin ingress

\* C9: the command run as the post-renewal hook is the configured
\* post_command, and pre_command is run once, before the rule add.
C9_PostHookRunsPostCommand ==
    \A i \in Invocations :
       /\ \A k \in PostHookRuns(i) : log[i][k].arg = post_command
       /\ Cardinality({k \in HookRuns(i) : log[i][k].arg = pre_command}) <= 1

\* The exposure window has one holder at a time: the rule is in the group
\* while an invocation that added it is at the renewal tool or at the remove.
\* A second add inside the window is refused as a duplicate, so no invocation
\* is at its renewal step with the rule absent.
ExposureHeldWhileRenewing ==
    \A i \in Invocations :
       pc[i] \in {"certbot", "remove_rule"} => temp_rule \in ingress

==========================================================================
